---- MODULE Spec2Model ----
(***************************************************************************)
(* Model of central_scraper.py: the four extractor functions, the record   *)
(* builder create_json_entry and the interactive driver main().            *)
(*                                                                         *)
(* Text (Python str) is modelled as a sequence of one-character strings,   *)
(* so that split, strip, replace, basename and splitext are computed       *)
(* character by character as the Python library computes them.             *)
(***************************************************************************)
EXTENDS Integers, Sequences, FiniteSets, TLC

(***************************************************************************)
(* Bounds of the model.                                                    *)
(***************************************************************************)
MaxTextLen == 5

MaxNodeLen == 4

MaxShortLen == 1

MaxTags == 2

MaxPathLen == 3

MaxNameLen == 2

(***************************************************************************)
(* Characters and text.                                                    *)
(***************************************************************************)
NL == "\n"

SP == " "

\* str.strip() with no argument removes leading and trailing whitespace.
Whitespace == {SP, NL, "\t"}

\* Alphabet of the document text explored by the model.
TextChars == {"a", "b", SP, NL}

\* All texts over an alphabet of length at most n.
TextsUpTo(chars, n) == UNION {[1..k -> chars] : k \in 0..n}

\* The Python value None (no character of a text is a longer string).
None == <<"None">>

\* s[i..j] as a sequence, empty when j < i.
Slice(s, i, j) == IF j < i THEN <<>> ELSE SubSeq(s, i, j)

\* "\n\n", the separator used by the extractors and by create_json_entry.
ParaSep == <<NL, NL>>

(***************************************************************************)
(* Python string methods.                                                  *)
(***************************************************************************)
\* str.strip(): drop the leading and the trailing run of whitespace.
Strip(s) ==
    LET nonws == {i \in 1..Len(s) : s[i] \notin Whitespace}
    IN  IF nonws = {} THEN <<>>
        ELSE LET lo == CHOOSE i \in nonws : \A j \in nonws : i <= j
                 hi == CHOOSE i \in nonws : \A j \in nonws : i >= j
             IN  SubSeq(s, lo, hi)

\* Index of the leftmost occurrence of "\n\n" in s, 0 when there is none
\* (str.find).
FindSep(s) ==
    LET hits == {i \in 1..(Len(s) - 1) : s[i] = NL /\ s[i + 1] = NL}
    IN  IF hits = {} THEN 0 ELSE CHOOSE i \in hits : \A j \in hits : i <= j

\* str.split("\n\n"): cut at the leftmost occurrence, continue after it.
\* A text without the separator is returned as a single piece.
RECURSIVE SplitParaSep(_)
SplitParaSep(s) ==
    LET i == FindSep(s)
    IN  IF i = 0 THEN <<s>>
        ELSE <<Slice(s, 1, i - 1)>> \o SplitParaSep(Slice(s, i + 2, Len(s)))

\* sep.join(parts)
RECURSIVE Join(_, _)
Join(parts, sep) ==
    IF parts = <<>> THEN <<>>
    ELSE IF Len(parts) = 1 THEN parts[1]
    ELSE parts[1] \o sep \o Join(Tail(parts), sep)

\* str.replace(' ', '_')
ReplaceSpaces(s) == [i \in 1..Len(s) |-> IF s[i] = SP THEN "_" ELSE s[i]]

(***************************************************************************)
(* create_json_entry                                                       *)
(***************************************************************************)
IsNonEmpty(p) == p # <<>>

\* Variant that keeps the segments that are empty after trimming.
SegmentParagraphsKeepEmpty(raw) ==
    LET parts == SplitParaSep(raw)
    IN  [i \in 1..Len(parts) |-> Strip(parts[i])]

\* [p.strip() for p in raw_text.split("\n\n") if p.strip()]
SegmentParagraphs(raw) ==
    LET parts == SplitParaSep(raw)
    IN  SelectSeq([i \in 1..Len(parts) |-> Strip(parts[i])], IsNonEmpty)

\* Variant that numbers the keys from 0.
ParagraphKeyFromZero(i) == "Paragraph_" \o ToString(i)

\* f"Paragraph_{i+1}" for the 0-based enumerate index i.
ParagraphKey(i) == "Paragraph_" \o ToString(i + 1)

\* {f"Paragraph_{i+1}": para for i, para in enumerate(paragraphs)}:
\* entries are inserted in order, a later key replacing an equal earlier one.
RECURSIVE ContentFrom(_, _, _)
ContentFrom(paragraphs, i, d) ==
    IF i >= Len(paragraphs) THEN d
    ELSE ContentFrom(paragraphs, i + 1,
                     (ParagraphKey(i) :> paragraphs[i + 1]) @@ d)

\* The empty dict.
EmptyDict == [k \in {} |-> <<>>]

\* Variant that stores the trimmed text as section_content.
create_json_entry_strips(name, type, link, iss, res, raw) ==
    [document_name   |-> name,
     document_type   |-> type,
     document_link   |-> link,
     issuer          |-> iss,
     resource_name   |-> res,
     section_content |-> Strip(raw),
     content         |-> ContentFrom(SegmentParagraphs(raw), 0, EmptyDict)]

create_json_entry(name, type, link, iss, res, raw) ==
    [document_name   |-> name,
     document_type   |-> type,
     document_link   |-> link,
     issuer          |-> iss,
     resource_name   |-> res,
     section_content |-> raw,
     content         |-> ContentFrom(SegmentParagraphs(raw), 0, EmptyDict)]

(***************************************************************************)
(* os.path on POSIX.                                                       *)
(***************************************************************************)
\* str.rfind(c) as a 1-based index, 0 when c does not occur.
RFind(p, c) ==
    LET hits == {i \in 1..Len(p) : p[i] = c}
    IN  IF hits = {} THEN 0 ELSE CHOOSE i \in hits : \A j \in hits : i >= j

\* posixpath.basename: the part after the last "/".
basename(p) == Slice(p, RFind(p, "/") + 1, Len(p))

\* genericpath._splitext: the extension starts at the last "." that follows
\* the last "/" and is preceded by some character of the file name that is
\* not a dot.  splitext_root is element [0] of the pair, splitext_ext is [1].
HasExtension(p) ==
    LET sepIndex == RFind(p, "/")
        dotIndex == RFind(p, ".")
    IN  /\ dotIndex > sepIndex
        /\ \E k \in (sepIndex + 1)..(dotIndex - 1) : p[k] # "."

splitext_root(p) == IF HasExtension(p) THEN Slice(p, 1, RFind(p, ".") - 1) ELSE p

splitext_ext(p) == IF HasExtension(p) THEN Slice(p, RFind(p, "."), Len(p)) ELSE <<>>

(***************************************************************************)
(* Exceptions.  An extractor either returns a value or lets an exception   *)
(* of some class propagate: [exc |-> class or "none", ret |-> value].      *)
(***************************************************************************)
NoExc == "none"

\* What the environment does to one extraction: success, a transport error
\* or a non-2xx status (both requests.exceptions.RequestException), an
\* unreadable file (OSError / UnicodeDecodeError), or an error raised by the
\* HTML or PDF parser.
ExcClassOf(outcome) ==
    CASE outcome = "transport" -> "RequestException"
      [] outcome = "status"    -> "RequestException"
      [] outcome = "file"      -> "OSError"
      [] outcome = "parse"     -> "ParserError"
      [] OTHER                 -> NoExc

\* Variant of the handler that catches nothing.
CatchesNothing(cls) == FALSE

\* except Exception: catches every exception class.
CatchesException(cls) == cls # NoExc

\* except requests.exceptions.RequestException: catches that class only.
CatchesRequestException(cls) == cls = "RequestException"

\* str(e), the message carried by the exception.
ExcMessage(outcome) ==
    CASE outcome = "transport" -> <<"t">>
      [] outcome = "status"    -> <<"4", "0", "4">>
      [] outcome = "file"      -> <<"f">>
      [] outcome = "parse"     -> <<"p">>
      [] OTHER                 -> <<>>

ErrorPrefix == <<"E", "r", "r", "o", "r", ":", " ">>

\* f"Error: {e}"
ErrorString(outcome) == ErrorPrefix \o ExcMessage(outcome)

Returned(v) == [exc |-> NoExc, ret |-> v]

Raised(cls) == [exc |-> cls, ret |-> None]

(***************************************************************************)
(* HTML documents.  A parsed document is the sequence of its elements in   *)
(* document order; an element has a tag name and the text nodes below it.  *)
(***************************************************************************)
\* Tag.get_text(separator, strip=True): every text node is stripped, the
\* nodes that are empty after stripping are skipped, the rest are joined.
get_text(el, separator) ==
    Join(SelectSeq([i \in 1..Len(el.nodes) |-> Strip(el.nodes[i])], IsNonEmpty),
         separator)

IsP(el) == el.tag = "p"

NotScriptOrStyle(el) == el.tag \notin {"script", "style"}

HasVisibleText(el) == get_text(el, <<>>) # <<>>

\* [p.get_text(separator=' ', strip=True) for p in soup.find_all("p")
\*  if p.get_text(strip=True)]
ParagraphTexts(soup) ==
    LET ps == SelectSeq(SelectSeq(soup, IsP), HasVisibleText)
    IN  [i \in 1..Len(ps) |-> get_text(ps[i], <<SP>>)]

\* for script in soup(['script', 'style']): script.decompose()
\* (the removal of table attributes that follows leaves every text node alone)
Decomposed(soup) == SelectSeq(soup, NotScriptOrStyle)

(***************************************************************************)
(* The extractor functions.  outcome is what the environment does to the   *)
(* extraction, doc the document it serves.                                 *)
(***************************************************************************)
scrape_sec_document(outcome, doc) ==
    LET cls == ExcClassOf(outcome)
    IN  IF cls = NoExc THEN Returned(Join(ParagraphTexts(doc), ParaSep))
        ELSE IF CatchesRequestException(cls) THEN Returned(ErrorString(outcome))
        ELSE Raised(cls)

scrape_local_html(outcome, doc) ==
    LET cls == ExcClassOf(outcome)
    IN  IF cls = NoExc
        THEN Returned(Join(ParagraphTexts(Decomposed(doc)), ParaSep))
        ELSE IF CatchesException(cls) THEN Returned(ErrorString(outcome))
        ELSE Raised(cls)

scrape_website_text(outcome, doc) ==
    LET cls == ExcClassOf(outcome)
    IN  IF cls = NoExc THEN Returned(Join(ParagraphTexts(doc), ParaSep))
        ELSE IF CatchesRequestException(cls) THEN Returned(ErrorString(outcome))
        ELSE Raised(cls)

\* text = ""; for page in doc: text += page.get_text("text") + "\n"
RECURSIVE PageText(_)
PageText(pages) ==
    IF pages = <<>> THEN <<>>
    ELSE pages[1] \o <<NL>> \o PageText(Tail(pages))

extract_text_from_pdf(outcome, pages) ==
    LET cls == ExcClassOf(outcome)
    IN  IF cls = NoExc THEN Returned(Strip(PageText(pages)))
        ELSE IF CatchesException(cls) THEN Returned(None)
        ELSE Raised(cls)

\* Handles left open when scrape_local_html returns: the file is read inside
\* a with block, which closes it whether or not read() raised.
LocalHtmlOpenAfter(outcome) == {}

\* Handles left open when extract_text_from_pdf returns.  fitz.open() succeeds
\* unless the file is unreadable; the function never calls doc.close() and
\* uses no with block, so the document stays open until the interpreter
\* finalises the unreferenced object, which may or may not have happened.
PdfOpenAfter(outcome, finalised) ==
    IF outcome = "file" \/ finalised THEN {} ELSE {"pdf"}

(***************************************************************************)
(* State of one run of main().                                             *)
(***************************************************************************)
VARIABLES
    pc,             \* position of main(): "choice", "dispatch", "meta",
                    \* "save", "done", "aborted" (early return), "crashed"
    choice,         \* answer to the mode prompt
    src,            \* the URL or the file path typed by the user
    outcome,        \* what the environment did to the extraction
    doc,            \* the document served: HTML elements or PDF pages
    raw_text,       \* value returned by the extractor
    document_name, document_type, document_link, issuer, resource_name,
    entry,          \* value returned by create_json_entry
    fs,             \* output files: path -> JSON envelope stored there
    fs0,            \* the files that existed when the run started
    written,        \* paths opened for writing by this run, in order
    open,           \* file handles currently open
    prompted,       \* prompts answered so far, in order
    printed,        \* messages printed after the menu, in order
    exc             \* the exception that left main(): its class and where
                    \* it was raised ("extractor" or "open"), or NoRaise

vars == <<pc, choice, src, outcome, doc, raw_text, document_name,
          document_type, document_link, issuer, resource_name, entry,
          fs, fs0, written, open, prompted, printed, exc>>

meta == <<document_name, document_type, document_link, issuer, resource_name>>

(***************************************************************************)
(* Inputs explored by the model.                                           *)
(***************************************************************************)
\* Answers to the mode prompt: the four modes and two answers that are not.
Choices == {"1", "2", "3", "4", "5", ""}

Urls == {<<>>, <<"u">>}

PathChars == {"a", SP, "/", "."}

Paths == TextsUpTo(PathChars, MaxPathLen)

NameChars == {"a", SP, "/"}

Names == TextsUpTo(NameChars, MaxNameLen)

\* Free-text metadata answers, the empty answer included.
Answers == {<<>>, <<"x", SP>>}

P(nodes) == [tag |-> "p", nodes |-> nodes]

Script(nodes) == [tag |-> "script", nodes |-> nodes]

\* HTML documents served to a run of main().
MainHtmlDocs ==
    { <<>>,
      <<P(<<<<"a">>>>), Script(<<<<"b">>>>), P(<<<<SP>>>>), P(<<<<"b">>, <<"a">>>>)>>,
      <<P(<<<<"a", NL, NL, "b">>>>)>>,
      <<P(<<<<SP, "a", NL>>>>)>> }

\* PDF documents (texts of the pages) served to a run of main().
MainPdfDocs ==
    { <<>>, << <<>> >>, << <<SP, NL>> >>, << <<"a">> >>,
      << <<"a">>, <<"b", NL, NL, "a">> >> }

NA == <<"N", "/", "A">>

RawFinancials ==
    <<"R", "a", "w", SP, "F", "i", "n", "a", "n", "c", "i", "a", "l", "s">>

SEC == <<"S", "E", "C">>

Market == <<"M", "a", "r", "k", "e", "t">>

JsonExt == <<".", "j", "s", "o", "n">>

\* Output files that may exist before the run.
PreExisting == {<<"a">> \o JsonExt, <<"_">> \o JsonExt, JsonExt}

OldFile == [company |-> <<"o", "l", "d">>, documents |-> <<>>]

NoEntry == [document_name |-> None]

\* No exception has left main().
NoRaise == [cls |-> NoExc, from |-> "none"]

(***************************************************************************)
(* main()                                                                  *)
(***************************************************************************)
\* Variant of the dispatch in which the else branch falls into mode 4.
ModeOfFallsThrough(c) ==
    CASE c = "1" -> 1 [] c = "2" -> 2 [] c = "3" -> 3 [] OTHER -> 4

\* if choice == "1" ... elif "2" ... elif "3" ... elif "4" ... else: 0
ModeOf(c) ==
    CASE c = "1" -> 1 [] c = "2" -> 2 [] c = "3" -> 3 [] c = "4" -> 4
      [] OTHER -> 0

\* "not raw_text": None and the empty string are both false.
NotRawText(raw) == raw = None \/ raw = <<>>

\* f"{document_name.replace(' ', '_')}.json"
json_filename(name) == ReplaceSpaces(name) \o JsonExt

Init ==
    /\ pc = "choice"
    /\ choice = "" /\ src = <<>> /\ outcome = "none" /\ doc = <<>>
    /\ raw_text = None
    /\ document_name = None /\ document_type = None /\ document_link = None
    /\ issuer = None /\ resource_name = None
    /\ entry = NoEntry
    /\ fs0 \in {[f \in {} |-> OldFile], [f \in PreExisting |-> OldFile]}
    /\ fs = fs0
    /\ written = <<>> /\ open = {} /\ prompted = <<>> /\ printed = <<>>
    /\ exc = NoRaise

\* choice = input("Enter the number of your choice: ")
Choose ==
    /\ pc = "choice"
    /\ \E c \in Choices : choice' = c
    /\ prompted' = Append(prompted, "choice")
    /\ pc' = "dispatch"
    /\ UNCHANGED <<src, outcome, doc, raw_text, meta, entry, fs, fs0, written,
                   open, printed, exc>>

\* The extractor call of a branch: r is what the extractor did.
Extracted(r) ==
    /\ raw_text' = r.ret
    /\ exc' = IF r.exc = NoExc THEN NoRaise
               ELSE [cls |-> r.exc, from |-> "extractor"]
    /\ pc' = IF r.exc = NoExc THEN "meta" ELSE "crashed"

\* choice == "1": url = input(...); raw_text = scrape_sec_document(url)
ExtractSec ==
    /\ pc = "dispatch" /\ ModeOf(choice) = 1
    /\ \E u \in Urls, o \in {"ok", "transport", "status", "parse"},
          d \in MainHtmlDocs :
          /\ src' = u /\ outcome' = o /\ doc' = d
          /\ Extracted(scrape_sec_document(o, d))
    /\ prompted' = Append(prompted, "url")
    /\ UNCHANGED <<choice, meta, entry, fs, fs0, written, open, printed>>

\* choice == "1": the prompts and assignments after the extraction
MetaSec ==
    /\ pc = "meta" /\ ModeOf(choice) = 1
    /\ \E n \in Names, i \in Answers :
          /\ document_name' = n
          /\ issuer' = i
    /\ document_type' = RawFinancials
    /\ document_link' = src
    /\ resource_name' = SEC
    /\ prompted' = prompted \o <<"name", "issuer">>
    /\ pc' = "save"
    /\ UNCHANGED <<choice, src, outcome, doc, raw_text, entry, fs, fs0,
                   written, open, printed, exc>>

\* choice == "2": file_path = input(...); raw_text = scrape_local_html(file_path)
ExtractLocal ==
    /\ pc = "dispatch" /\ ModeOf(choice) = 2
    /\ \E f \in Paths, o \in {"ok", "file", "parse"}, d \in MainHtmlDocs :
          /\ src' = f /\ outcome' = o /\ doc' = d
          /\ Extracted(scrape_local_html(o, d))
          /\ open' = open \cup LocalHtmlOpenAfter(o)
    /\ prompted' = Append(prompted, "path")
    /\ UNCHANGED <<choice, meta, entry, fs, fs0, written, printed>>

MetaLocal ==
    /\ pc = "meta" /\ ModeOf(choice) = 2
    /\ document_name' = splitext_root(basename(src))
    /\ document_type' = RawFinancials
    /\ document_link' = NA
    /\ \E i \in Answers : issuer' = i
    /\ resource_name' = SEC
    /\ prompted' = Append(prompted, "issuer")
    /\ pc' = "save"
    /\ UNCHANGED <<choice, src, outcome, doc, raw_text, entry, fs, fs0,
                   written, open, printed, exc>>

\* choice == "3": pdf_path = input(...); raw_text = extract_text_from_pdf(pdf_path)
\* The except clause of the extractor prints the exception.
ExtractPdf ==
    /\ pc = "dispatch" /\ ModeOf(choice) = 3
    /\ \E f \in Paths, o \in {"ok", "file", "parse"}, d \in MainPdfDocs,
          finalised \in BOOLEAN :
          /\ src' = f /\ outcome' = o /\ doc' = d
          /\ Extracted(extract_text_from_pdf(o, d))
          /\ open' = open \cup PdfOpenAfter(o, finalised)
          /\ printed' = IF o = "ok" THEN printed ELSE Append(printed, "Error")
    /\ prompted' = Append(prompted, "path")
    /\ UNCHANGED <<choice, meta, entry, fs, fs0, written>>

\* if not raw_text: print("Failed to extract text from the PDF. Exiting."); return
AbortPdf ==
    /\ pc = "meta" /\ ModeOf(choice) = 3
    /\ NotRawText(raw_text)
    /\ printed' = Append(printed, "Failed to extract")
    /\ pc' = "aborted"
    /\ UNCHANGED <<choice, src, outcome, doc, raw_text, meta, entry, fs, fs0,
                   written, open, prompted, exc>>

MetaPdf ==
    /\ pc = "meta" /\ ModeOf(choice) = 3
    /\ ~NotRawText(raw_text)
    /\ document_name' = splitext_root(basename(src))
    /\ document_link' = NA
    /\ \E t \in Answers, i \in Answers, r \in Answers :
          /\ document_type' = t
          /\ issuer' = i
          /\ resource_name' = r
    /\ prompted' = prompted \o <<"type", "issuer", "resource">>
    /\ pc' = "save"
    /\ UNCHANGED <<choice, src, outcome, doc, raw_text, entry, fs, fs0,
                   written, open, printed, exc>>

\* choice == "4": url = input(...); raw_text = scrape_website_text(url)
ExtractWeb ==
    /\ pc = "dispatch" /\ ModeOf(choice) = 4
    /\ \E u \in Urls, o \in {"ok", "transport", "status", "parse"},
          d \in MainHtmlDocs :
          /\ src' = u /\ outcome' = o /\ doc' = d
          /\ Extracted(scrape_website_text(o, d))
    /\ prompted' = Append(prompted, "url")
    /\ UNCHANGED <<choice, meta, entry, fs, fs0, written, open, printed>>

MetaWeb ==
    /\ pc = "meta" /\ ModeOf(choice) = 4
    /\ \E n \in Names, i \in Answers, r \in Answers :
          /\ document_name' = n
          /\ issuer' = i
          /\ resource_name' = r
    /\ document_type' = Market
    /\ document_link' = src
    /\ prompted' = prompted \o <<"name", "issuer", "resource">>
    /\ pc' = "save"
    /\ UNCHANGED <<choice, src, outcome, doc, raw_text, entry, fs, fs0,
                   written, open, printed, exc>>

\* else: print("Invalid choice. Please restart the script."); return
Invalid ==
    /\ pc = "dispatch" /\ ModeOf(choice) = 0
    /\ printed' = Append(printed, "Invalid choice")
    /\ pc' = "aborted"
    /\ UNCHANGED <<choice, src, outcome, doc, raw_text, meta, entry, fs, fs0,
                   written, open, prompted, exc>>

\* The envelope {"company": issuer, "documents": [create_json_entry(...)]}
document_json(e) == [company |-> issuer, documents |-> <<e>>]

\* Lines 148-160: file name, record, and the write inside a with block.
\* open(json_filename, "w") either raises OSError (missing directory, no
\* permission), and then nothing is written, or creates or truncates the
\* file; the with block closes the handle on both ways out.
Save ==
    /\ pc = "save"
    /\ LET e == create_json_entry(document_name, document_type, document_link,
                                  issuer, resource_name, raw_text)
           f == json_filename(document_name)
       IN  /\ entry' = e
           /\ \E opened \in BOOLEAN :
                 IF opened
                 THEN /\ fs' = (f :> document_json(e)) @@ fs
                      /\ written' = Append(written, f)
                      /\ printed' = Append(printed, "saved")
                      /\ exc' = exc
                      /\ pc' = "done"
                 ELSE /\ exc' = [cls |-> "OSError", from |-> "open"]
                      /\ pc' = "crashed"
                      /\ UNCHANGED <<fs, written, printed>>
    /\ UNCHANGED <<choice, src, outcome, doc, raw_text, meta, fs0, open,
                   prompted>>

Next ==
    \/ Choose
    \/ ExtractSec \/ MetaSec
    \/ ExtractLocal \/ MetaLocal
    \/ ExtractPdf \/ AbortPdf \/ MetaPdf
    \/ ExtractWeb \/ MetaWeb
    \/ Invalid
    \/ Save

Spec == Init /\ [][Next]_vars

(***************************************************************************)
(* create_json_entry on its own: every argument is drawn from a bounded    *)
(* set and the function is applied once.                                   *)
(***************************************************************************)
RawTexts == TextsUpTo(TextChars, MaxTextLen)

InitBuild ==
    /\ pc = "call"
    /\ raw_text \in RawTexts
    /\ document_name \in Answers /\ document_type \in Answers
    /\ document_link \in Answers /\ issuer \in Answers
    /\ resource_name \in Answers
    /\ choice = "" /\ src = <<>> /\ outcome = "none" /\ doc = <<>>
    /\ entry = NoEntry
    /\ fs0 = [f \in {} |-> OldFile] /\ fs = fs0
    /\ written = <<>> /\ open = {} /\ prompted = <<>> /\ printed = <<>>
    /\ exc = NoRaise

\* entry = create_json_entry(document_name, ..., raw_text)
Build ==
    /\ pc = "call"
    /\ entry' = create_json_entry(document_name, document_type, document_link,
                                  issuer, resource_name, raw_text)
    /\ pc' = "returned"
    /\ UNCHANGED <<choice, src, outcome, doc, raw_text, meta, fs, fs0, written,
                   open, prompted, printed, exc>>

SpecBuild == InitBuild /\ [][Build]_vars

(***************************************************************************)
(* A successful HTML extraction followed by create_json_entry: the         *)
(* document is drawn from a bounded set of parsed documents.               *)
(***************************************************************************)
NodeChars == {"a", NL}

\* The text nodes of one element: none, one node of up to MaxNodeLen
\* characters, or two nodes of up to MaxShortLen characters.
NodeLists ==
    {<<>>}
    \cup {<<s>> : s \in TextsUpTo(NodeChars, MaxNodeLen)}
    \cup {<<s, t>> : s, t \in TextsUpTo({"a", "b", SP}, MaxShortLen)}

\* Paragraph elements with any of these node lists, and a script element.
Elements == {P(n) : n \in NodeLists} \cup {Script(<<<<"b">>>>)}

HtmlDocs == UNION {[1..k -> Elements] : k \in 0..MaxTags}

InitHtml ==
    /\ pc = "scrape"
    /\ choice \in {"1", "2", "4"}
    /\ doc \in HtmlDocs
    /\ outcome = "ok"
    /\ src = <<>> /\ raw_text = None
    /\ document_name = <<"d">> /\ document_type = <<"t">>
    /\ document_link = NA /\ issuer = <<"i">> /\ resource_name = <<"r">>
    /\ entry = NoEntry
    /\ fs0 = [f \in {} |-> OldFile] /\ fs = fs0
    /\ written = <<>> /\ open = {} /\ prompted = <<>> /\ printed = <<>>
    /\ exc = NoRaise

\* raw_text = scrape_sec_document(url) | scrape_local_html(file_path) |
\*            scrape_website_text(url), on a fetch that succeeds
Scrape ==
    /\ pc = "scrape"
    /\ raw_text' = CASE ModeOf(choice) = 1 -> scrape_sec_document(outcome, doc).ret
                     [] ModeOf(choice) = 2 -> scrape_local_html(outcome, doc).ret
                     [] OTHER              -> scrape_website_text(outcome, doc).ret
    /\ pc' = "call"
    /\ UNCHANGED <<choice, src, outcome, doc, meta, entry, fs, fs0, written,
                   open, prompted, printed, exc>>

NextHtml == Scrape \/ Build

SpecHtml == InitHtml /\ [][NextHtml]_vars

(***************************************************************************)
(* Properties of create_json_entry (checked under SpecBuild).              *)
(***************************************************************************)
\* The i-th smallest element of a set of integers.
Nth(S, i) == CHOOSE x \in S : Cardinality({y \in S : y < x}) = i - 1

\* Position i starts a "\n\n" boundary of s: it is followed by a second
\* newline and lies an even number of characters into its run of newlines
\* (boundaries are taken left to right and do not overlap).
IsBoundary(s, i) ==
    /\ i < Len(s) /\ s[i] = NL /\ s[i + 1] = NL
    /\ LET runStart == CHOOSE j \in 1..i :
                          /\ \A k \in j..i : s[k] = NL
                          /\ (j = 1 \/ s[j - 1] # NL)
       IN  (i - runStart) % 2 = 0

Boundaries(s) == {i \in 1..Len(s) : IsBoundary(s, i)}

\* First positions of the segments of s delimited by its boundaries.
SegmentStarts(s) == {1} \cup {i + 2 : i \in Boundaries(s)}

\* Last position of the segment that starts at a.
SegmentEnd(s, a) ==
    LET later == {i \in Boundaries(s) : i >= a}
    IN  IF later = {} THEN Len(s)
        ELSE (CHOOSE i \in later : \A j \in later : i <= j) - 1

HasVisibleChar(s, a) == \E k \in a..SegmentEnd(s, a) : s[k] \notin Whitespace

\* t is s[a..b] without its leading and trailing whitespace.
IsTrimOf(t, s, a, b) ==
    /\ t # <<>>
    /\ t[1] \notin Whitespace /\ t[Len(t)] \notin Whitespace
    /\ \E lo \in a..b :
          /\ lo + Len(t) - 1 <= b
          /\ t = SubSeq(s, lo, lo + Len(t) - 1)
          /\ \A k \in (a..(lo - 1)) \cup ((lo + Len(t))..b) :
                s[k] \in Whitespace

\* Keys Paragraph_1 .. Paragraph_n.
KeysUpTo(n) == {"Paragraph_" \o ToString(i) : i \in 1..n}

\* C1: the "content" mapping of the record returned by create_json_entry is
\* exactly the sequence of non-empty trimmed segments of "section_content"
\* delimited by "\n\n", in order: its keys are Paragraph_1 .. Paragraph_n
\* without gap, Paragraph_i is the i-th such segment, and no value is empty.
C1_ContentIsSegments ==
    pc = "returned" =>
        LET s      == entry.section_content
            starts == {a \in SegmentStarts(s) : HasVisibleChar(s, a)}
            n      == Cardinality(starts)
        IN  /\ DOMAIN entry.content = KeysUpTo(n)
            /\ \A i \in 1..n :
                  LET a == Nth(starts, i)
                      v == entry.content["Paragraph_" \o ToString(i)]
                  IN  /\ v # <<>>
                      /\ IsTrimOf(v, s, a, SegmentEnd(s, a))

\* A text with an odd run of newlines between two paragraphs, the second of
\* which has to be trimmed, has been segmented.
C1_Witness ==
    /\ pc = "returned"
    /\ raw_text = <<"a", NL, NL, NL, "b">>
    /\ Cardinality(DOMAIN entry.content) = 2
    /\ entry.content["Paragraph_2"] = <<"b">>

\* C5: create_json_entry stores its inputs unmodified: "section_content" is
\* the raw_text argument character for character, and the five metadata
\* arguments are copied verbatim, empty strings included.
C5_InputsStoredVerbatim ==
    pc = "returned" =>
        /\ entry.section_content = raw_text
        /\ entry.document_name = document_name
        /\ entry.document_type = document_type
        /\ entry.document_link = document_link
        /\ entry.issuer = issuer
        /\ entry.resource_name = resource_name

\* A record built from a text with surrounding whitespace and from empty
\* metadata.
C5_Witness ==
    /\ pc = "returned"
    /\ raw_text = <<NL, "a", SP>>
    /\ entry.section_content = <<NL, "a", SP>>
    /\ document_name = <<>> /\ issuer = <<>>
    /\ entry.document_name = <<>>

\* The paragraphs of a content mapping, in key order.
ParagraphsOf(content) ==
    [i \in 1..Cardinality(DOMAIN content) |->
        content["Paragraph_" \o ToString(i)]]

\* C7: segmentation is stable under re-joining: joining the paragraphs of a
\* record with "\n\n" and segmenting the result again gives the same
\* ordered paragraphs, and no paragraph is the empty string.
C7_SegmentationStable ==
    pc = "returned" =>
        LET ps == ParagraphsOf(entry.content)
        IN  /\ SegmentParagraphs(Join(ps, ParaSep)) = ps
            /\ \A i \in 1..Len(ps) : ps[i] # <<>>

\* A text whose segmentation trims and drops something has been segmented.
C7_Witness ==
    /\ pc = "returned"
    /\ raw_text = <<"a", SP, NL, NL>>
    /\ ParagraphsOf(entry.content) = << <<"a">> >>
    /\ Join(ParagraphsOf(entry.content), ParaSep) # raw_text

(***************************************************************************)
(* Properties of the HTML extraction followed by create_json_entry         *)
(* (checked under SpecHtml).                                               *)
(***************************************************************************)
\* C10: after a successful HTML extraction the "content" mapping has one
\* entry per paragraph tag with visible text, in document order, and
\* Paragraph_i is the text extracted from the i-th such tag.
C10_OneEntryPerParagraphTag ==
    pc = "returned" =>
        LET texts == ParagraphTexts(doc)
        IN  /\ DOMAIN entry.content = KeysUpTo(Len(texts))
            /\ \A i \in 1..Len(texts) :
                  entry.content["Paragraph_" \o ToString(i)] = texts[i]

(***************************************************************************)
(* Properties of a run of main() (checked under Spec).                     *)
(***************************************************************************)
\* The extractor has been called in this run.
AfterExtraction == pc \notin {"choice", "dispatch"}

\* extract_text_from_pdf caught an exception from opening or reading the PDF.
PdfExtractionFailed ==
    ModeOf(choice) = 3 /\ AfterExtraction /\ outcome \in {"file", "parse"}

InvalidSelection == pc # "choice" /\ choice \notin {"1", "2", "3", "4"}

\* C2: a run writes no output file when the mode selection is not one of
\* "1".."4" or when PDF extraction failed: it prints its message and returns
\* without a further prompt, no file is opened for writing, and the files
\* that existed before the run are untouched.
C2_NoFileOnAbort ==
    (InvalidSelection \/ PdfExtractionFailed) =>
        /\ written = <<>>
        /\ fs = fs0
        /\ pc \in {"dispatch", "meta", "aborted"}
        /\ prompted \in {<<"choice">>, <<"choice", "path">>}
        /\ pc = "aborted" =>
              /\ printed # <<>>
              /\ printed[Len(printed)] =
                    (IF InvalidSelection THEN "Invalid choice"
                     ELSE "Failed to extract")

\* A run aborted on an invalid selection while output files existed.
C2_Witness ==
    /\ pc = "aborted"
    /\ InvalidSelection
    /\ choice = "5"
    /\ fs0 # [f \in {} |-> OldFile]
    /\ printed = <<"Invalid choice">>

\* An HTML mode whose fetch or file read failed.
HtmlFetchError ==
    /\ ModeOf(choice) \in {1, 2, 4}
    /\ AfterExtraction
    /\ outcome \in {"transport", "status", "file"}

\* The prompts of a complete run in each mode.
AllPrompts(mode) ==
    CASE mode = 1 -> <<"choice", "url", "name", "issuer">>
      [] mode = 2 -> <<"choice", "path", "issuer">>
      [] mode = 3 -> <<"choice", "path", "type", "issuer", "resource">>
      [] mode = 4 -> <<"choice", "url", "name", "issuer", "resource">>
      [] OTHER    -> <<"choice">>

\* C3: in the HTML modes a fetch or file error does not abort the run: the
\* extractor returns a string that begins with "Error: ", the driver goes on
\* through the remaining prompts, and the run that completes has written
\* exactly one JSON file whose "section_content" is that error string.
C3_HtmlErrorIsEmbedded ==
    HtmlFetchError =>
        /\ pc # "aborted"
        /\ exc.from # "extractor"
        /\ raw_text # None
        /\ Len(raw_text) >= Len(ErrorPrefix)
        /\ SubSeq(raw_text, 1, Len(ErrorPrefix)) = ErrorPrefix
        /\ pc \in {"save", "done"} => prompted = AllPrompts(ModeOf(choice))
        /\ pc = "done" =>
              /\ Len(written) = 1
              /\ written[1] \in DOMAIN fs
              /\ Len(fs[written[1]].documents) = 1
              /\ fs[written[1]].documents[1].section_content = raw_text

\* A local HTML run whose file could not be read has completed.
C3_Witness ==
    /\ pc = "done"
    /\ ModeOf(choice) = 2
    /\ outcome = "file"
    /\ Len(written) = 1
    /\ fs[written[1]].documents[1].section_content = ErrorPrefix \o <<"f">>

\* C4: no exception propagates out of an extractor into main(): for every
\* mode and every failure kind the extractor returns a value.
C4_NoExceptionLeavesExtractor == exc.from # "extractor"

\* The characters of f are those of name with every space replaced by an
\* underscore, followed by ".json".
IsJsonNameOf(f, name) ==
    /\ Len(f) = Len(name) + 5
    /\ \A i \in 1..Len(name) : f[i] = (IF name[i] = SP THEN "_" ELSE name[i])
    /\ SubSeq(f, Len(name) + 1, Len(f)) = <<".", "j", "s", "o", "n">>

\* A relative path names a file directly in the working directory.
InWorkingDirectory(f) == \A i \in 1..Len(f) : f[i] # "/"

\* name is the base name of path without its extension.
IsStemOf(name, path) ==
    \E k \in 0..Len(path), e \in 0..Len(path) :
        /\ k + Len(name) + e = Len(path)
        /\ (k > 0 => path[k] = "/")
        /\ \A i \in (k + 1)..Len(path) : path[i] # "/"
        /\ name = Slice(path, k + 1, k + Len(name))
        /\ e > 0 => /\ path[k + Len(name) + 1] = "."
                    /\ \A i \in (k + Len(name) + 2)..Len(path) : path[i] # "."

\* C6: every run that does not abort writes exactly one file, in the working
\* directory, named after the document name with spaces replaced by
\* underscores and ".json" appended; in modes 2 and 3 the document name is
\* the base name of the input path without its extension.
C6_OneFileInWorkingDirectory ==
    pc = "done" =>
        /\ Len(written) = 1
        /\ IsJsonNameOf(written[1], document_name)
        /\ InWorkingDirectory(written[1])
        /\ written[1] \in DOMAIN fs
        /\ ModeOf(choice) \in {2, 3} => IsStemOf(document_name, src)

\* C8: every file handle the program opened is closed when an extractor or
\* main() returns, on every exit path.
C8_NoHandleLeftOpen == open = {}

\* C9: in PDF mode extract_text_from_pdf returns the null sentinel exactly
\* when opening or reading the PDF raised, and the run aborts without a file
\* exactly in that case: an extraction that succeeds with empty text is not
\* treated as a failure.
C9_AbortOnlyOnException ==
    (ModeOf(choice) = 3 /\ AfterExtraction) =>
        /\ (raw_text = None) <=> (outcome # "ok")
        /\ pc = "aborted" => outcome # "ok"
        /\ outcome # "ok" => pc \in {"meta", "aborted"}

====
